---- MODULE Spec2Model ----
(***************************************************************************)
(* Concrete estimation engine (js/calculators.js).                         *)
(*                                                                         *)
(* JavaScript values are modelled as records [t, n, d, s]: t is the type   *)
(* tag, n/d a normalised fraction (d > 0, gcd(n, d) = 1) when t is         *)
(* "number", s the text when t is "string".  Numbers are exact rationals:  *)
(* the IEEE-754 rounding of the source's doubles is abstracted away, and   *)
(* Math.PI is the rational 355/113.  NaN is the value with t = "nan".      *)
(***************************************************************************)
EXTENDS Integers, Sequences, FiniteSets, TLC

\* ===== bounds of the model =====
MaxCount == 3

MaxVolume == 20

\* input events on a form, info modals on a page, and the debounce wait in
\* ticks of the page's clock
MaxEvents == 3

MaxModals == 2

DebounceTicks == 2

\* ===== JavaScript values =====
Abs(i) == IF i < 0 THEN -i ELSE i

RECURSIVE GCD(_, _)
GCD(a, b) == IF b = 0 THEN a ELSE GCD(b, a % b)

Gcd(a, b) == GCD(Abs(a), Abs(b))

Num(a, b) ==
  LET g == Gcd(a, b)
      sg == IF b < 0 THEN -1 ELSE 1
  IN [t |-> "number", n |-> sg * (a \div g), d |-> sg * (b \div g), s |-> ""]

Whole(i) == [t |-> "number", n |-> i, d |-> 1, s |-> ""]

Undefined == [t |-> "undefined", n |-> 0, d |-> 1, s |-> ""]

Null == [t |-> "null", n |-> 0, d |-> 1, s |-> ""]

NaN == [t |-> "nan", n |-> 0, d |-> 1, s |-> ""]

Str(x) == [t |-> "string", n |-> 0, d |-> 1, s |-> x]

IsNum(x) == x.t = "number"

\* ToNumber of the operands the engine meets: undefined -> NaN, null -> 0
ToNumber(x) ==
  CASE x.t = "number" -> x
    [] x.t = "null" -> Whole(0)
    [] OTHER -> NaN

\* variant: every value passes the !x test
Truthy_always(x) == x = x

\* ToBoolean: undefined, null, NaN, 0 and "" are falsy
Truthy(x) ==
  CASE x.t = "number" -> x.n # 0
    [] x.t = "string" -> x.s # ""
    [] x.t = "object" -> TRUE
    [] OTHER -> FALSE

\* a default parameter value replaces undefined only
Default(x, dflt) == IF x.t = "undefined" THEN dflt ELSE x

\* ===== arithmetic on JavaScript numbers =====
\* variant: the product is its left factor
Mul_left(x, y) == ToNumber(x)

Mul(x, y) ==
  LET a == ToNumber(x)
      b == ToNumber(y)
  IN IF a.t = "nan" \/ b.t = "nan" THEN NaN
     ELSE LET g1 == Gcd(a.n, b.d)
              g2 == Gcd(b.n, a.d)
          IN Num((a.n \div g1) * (b.n \div g2), (a.d \div g2) * (b.d \div g1))

Add(x, y) ==
  LET a == ToNumber(x)
      b == ToNumber(y)
  IN IF a.t = "nan" \/ b.t = "nan" THEN NaN
     ELSE LET g == Gcd(a.d, b.d)
          IN Num(a.n * (b.d \div g) + b.n * (a.d \div g), (a.d \div g) * b.d)

Neg(x) == Mul(Whole(-1), x)

Sub(x, y) == Add(x, Neg(y))

\* x / y for the non-zero constant divisors the engine uses
Div(x, y) ==
  LET b == ToNumber(y)
  IN IF b.t = "nan" \/ b.n = 0 THEN NaN ELSE Mul(x, Num(b.d, b.n))

\* variant: <= where < is meant
Lt_orEqual(x, y) ==
  LET a == ToNumber(x)
      b == ToNumber(y)
  IN IF a.t = "nan" \/ b.t = "nan" THEN FALSE
     ELSE LET g == Gcd(a.d, b.d)
          IN a.n * (b.d \div g) <= b.n * (a.d \div g)

\* relational operators: any comparison with NaN is false
Lt(x, y) ==
  LET a == ToNumber(x)
      b == ToNumber(y)
  IN IF a.t = "nan" \/ b.t = "nan" THEN FALSE
     ELSE LET g == Gcd(a.d, b.d)
          IN a.n * (b.d \div g) < b.n * (a.d \div g)

\* variant: nothing is greater than anything
Gt_never(x, y) == FALSE

Gt(x, y) == Lt(y, x)

Le(x, y) ==
  LET a == ToNumber(x)
      b == ToNumber(y)
  IN IF a.t = "nan" \/ b.t = "nan" THEN FALSE ELSE ~Lt(y, x)

\* Math.ceil
Ceil(x) ==
  LET a == ToNumber(x)
  IN IF a.t = "nan" THEN NaN ELSE Whole(-((-a.n) \div a.d))

\* Math.max
Max(x, y) ==
  LET a == ToNumber(x)
      b == ToNumber(y)
  IN IF a.t = "nan" \/ b.t = "nan" THEN NaN ELSE IF Lt(a, b) THEN b ELSE a

\* variant: doubles instead of squaring
Pow2_double(x) == Mul(x, Whole(2))

\* Math.pow(x, 2)
Pow2(x) == Mul(x, x)

\* Math.abs
MathAbs(x) ==
  LET a == ToNumber(x)
  IN IF a.t = "nan" THEN NaN ELSE Num(Abs(a.n), a.d)

\* ===== string conversions =====
Pow10(k) == IF k = 0 THEN 1 ELSE IF k = 1 THEN 10 ELSE IF k = 2 THEN 100
            ELSE IF k = 3 THEN 1000 ELSE 10000

RECURSIVE ZeroPad(_, _)
ZeroPad(f, k) == IF k = 0 THEN "" ELSE ZeroPad(f \div 10, k - 1) \o ToString(f % 10)

\* Number.prototype.toFixed(decimals): nearest value with that many decimals,
\* a tie going to the larger magnitude; the sign is written first
ToFixed(x, decimals) ==
  IF x.t # "number" THEN "NaN"
  ELSE LET scaled == Mul(MathAbs(x), Whole(Pow10(decimals)))
           q == (2 * scaled.n + scaled.d) \div (2 * scaled.d)
           whole == q \div Pow10(decimals)
           frac == q % Pow10(decimals)
       IN (IF x.n < 0 THEN "-" ELSE "") \o ToString(whole)
          \o (IF decimals = 0 THEN "" ELSE "." \o ZeroPad(frac, decimals))

\* the digits after the decimal point of a terminating decimal, without
\* trailing zeros (at most four are needed for the values the engine prints)
RECURSIVE FracDigits(_, _, _)
FracDigits(n, d, k) ==
  IF n = 0 \/ k = 0 THEN ""
  ELSE ToString((n * 10) \div d) \o FracDigits((n * 10) % d, d, k - 1)

\* String(x), as a template literal `${x}` converts x
ToStr(x) ==
  CASE x.t = "undefined" -> "undefined"
    [] x.t = "null" -> "null"
    [] x.t = "nan" -> "NaN"
    [] x.t = "string" -> x.s
    [] x.t = "object" -> "[object]"
    [] OTHER ->
       LET a == Abs(x.n)
       IN (IF x.n < 0 THEN "-" ELSE "") \o ToString(a \div x.d)
          \o (IF a % x.d = 0 THEN "" ELSE "." \o FracDigits(a % x.d, x.d, 4))

RECURSIVE GroupThousands(_)
GroupThousands(i) ==
  IF i < 1000 THEN ToString(i)
  ELSE GroupThousands(i \div 1000) \o "," \o ZeroPad(i % 1000, 3)

formatNumber(value, decimals) == ToFixed(value, decimals)

formatCurrency(value) ==
  IF value.t # "number" THEN "$NaN"
  ELSE LET q == (2 * Abs(value.n) + value.d) \div (2 * value.d)
       IN "$" \o (IF value.n < 0 THEN "-" ELSE "") \o GroupThousands(q)

\* ===== the constants table =====
RegionCodes == {"nsw", "vic", "qld", "wa", "sa", "tas", "nt", "act"}

Price(lo, hi, label) == [min |-> Whole(lo), max |-> Whole(hi), label |-> label]

READYMIX_PRICES ==
  [r \in RegionCodes |->
     CASE r = "nsw" -> Price(250, 380, "NSW")
       [] r = "vic" -> Price(240, 360, "Victoria")
       [] r = "qld" -> Price(230, 350, "Queensland")
       [] r = "wa" -> Price(260, 400, "Western Australia")
       [] r = "sa" -> Price(240, 370, "South Australia")
       [] r = "tas" -> Price(280, 420, "Tasmania")
       [] r = "nt" -> Price(300, 450, "Northern Territory")
       [] r = "act" -> Price(250, 380, "ACT")]

ConstantsTable ==
  [BAGS_PER_CUBIC_METRE |-> Whole(108),
   DEFAULT_WASTAGE |-> Whole(10),
   BAG_PRICE_MIN |-> Num(17, 2),
   BAG_PRICE_MAX |-> Num(25, 2),
   BAG_PRICE_DEFAULT |-> Whole(10),
   READYMIX_PRICES |-> READYMIX_PRICES,
   READYMIX_PRICE_MIN |-> Whole(200),
   READYMIX_PRICE_MAX |-> Whole(420),
   READYMIX_MINIMUM_ORDER |-> Num(1, 2),
   PI |-> Num(355, 113)]

\* property names every object literal inherits from Object.prototype
ObjectPrototypeKeys ==
  {"constructor", "toString", "toLocaleString", "valueOf", "hasOwnProperty",
   "isPrototypeOf", "propertyIsEnumerable", "__proto__"}

VARIABLES constantsTable, op, params, result, earlier

\* the page: form fields, the ids renderResults is given, the result
\* elements, the formula container, the timers, debounce's timeout, and the
\* info modals with their backdrops, triggers and the body's overflow style
VARIABLES phase, form, elements, dom, formulaBox, timers, timeout,
          modalOpen, backdropOpen, ariaExpanded, bodyOverflow

\* what happened on the page so far: input events, bursts of them, calls of
\* the debounced function, the time since the last event, the record last
\* given to the render function
VARIABLES calls, bursts, invocations, lastInvocation, quiet, lastRendered

engineVars == <<constantsTable, op, params, result, earlier>>

formVars == <<phase, form, elements, dom, formulaBox, timers, timeout>>

modalVars == <<modalOpen, backdropOpen, ariaExpanded, bodyOverflow>>

historyVars == <<calls, bursts, invocations, lastInvocation, quiet, lastRendered>>

pageVars == <<formVars, modalVars, historyVars>>

vars == <<engineVars, pageVars>>

\* READYMIX_PRICES[state]: an own entry, an inherited member (an object
\* without min/max), or undefined.  A non-string key is turned into a string.
LookupPrice(state) ==
  LET key == ToStr(state)
      table == constantsTable.READYMIX_PRICES
  IN IF key \in DOMAIN table
       THEN [found |-> TRUE, min |-> table[key].min, max |-> table[key].max]
     ELSE IF key \in ObjectPrototypeKeys
       THEN [found |-> TRUE, min |-> Undefined, max |-> Undefined]
     ELSE [found |-> FALSE, min |-> Undefined, max |-> Undefined]

\* ===== utility functions =====
mmToMetres(mm) == Div(mm, Whole(1000))

metresToMm(m) == Mul(m, Whole(1000))

\* variant: takes the percentage off instead of adding it
applyWastage_subtract(volume, wastagePercent) ==
  Mul(volume, Sub(Whole(1), Div(wastagePercent, Whole(100))))

\* variant: the wastage share alone, without the base volume
applyWastage_share(volume, wastagePercent) ==
  Mul(volume, Div(wastagePercent, Whole(100)))

applyWastage(volume, wastagePercent) ==
  Mul(volume, Add(Whole(1), Div(wastagePercent, Whole(100))))

\* variant: rounds to the nearest bag instead of up
calculateBags_nearest(volume) ==
  LET x == Mul(volume, constantsTable.BAGS_PER_CUBIC_METRE)
  IN IF x.t = "nan" THEN NaN ELSE Whole((2 * x.n + x.d) \div (2 * x.d))

calculateBags(volume) == Ceil(Mul(volume, constantsTable.BAGS_PER_CUBIC_METRE))

\* variant: one price for both ends of the range
calculateBagCost_flat(bags, priceMin, priceMax) ==
  LET lo == Default(priceMin, constantsTable.BAG_PRICE_MIN)
  IN [min |-> Mul(bags, lo), max |-> Mul(bags, lo)]

calculateBagCost(bags, priceMin, priceMax) ==
  LET lo == Default(priceMin, constantsTable.BAG_PRICE_MIN)
      hi == Default(priceMax, constantsTable.BAG_PRICE_MAX)
  IN [min |-> Mul(bags, lo), max |-> Mul(bags, hi)]

\* variant: bills the requested volume, without the minimum-order floor
calculateReadymixCost_noFloor(volume, stateArg) ==
  LET state == Default(stateArg, Null)
      entry == LookupPrice(state)
      pricing == IF Truthy(state) /\ entry.found
                   THEN [min |-> entry.min, max |-> entry.max]
                 ELSE [min |-> constantsTable.READYMIX_PRICE_MIN,
                       max |-> constantsTable.READYMIX_PRICE_MAX]
  IN [min |-> Mul(volume, pricing.min),
      max |-> Mul(volume, pricing.max),
      volume |-> volume,
      hasMinimumApplied |-> Lt(volume, constantsTable.READYMIX_MINIMUM_ORDER)]

calculateReadymixCost(volume, stateArg) ==
  LET state == Default(stateArg, Null)
      entry == LookupPrice(state)
      pricing == IF Truthy(state) /\ entry.found
                   THEN [min |-> entry.min, max |-> entry.max]
                 ELSE [min |-> constantsTable.READYMIX_PRICE_MIN,
                       max |-> constantsTable.READYMIX_PRICE_MAX]
      orderVolume == Max(volume, constantsTable.READYMIX_MINIMUM_ORDER)
  IN [min |-> Mul(orderVolume, pricing.min),
      max |-> Mul(orderVolume, pricing.max),
      volume |-> orderVolume,
      hasMinimumApplied |-> Lt(volume, constantsTable.READYMIX_MINIMUM_ORDER)]

\* ===== calculator functions =====
\* Each takes the destructured parameter record p: a field the caller left
\* out holds Undefined.
\* variant: the failure record also carries (empty) figures
InvalidResult_withFigures(reason) ==
  [valid |-> FALSE, error |-> reason, results |-> [bags |-> Whole(0)]]

InvalidResult(reason) == [valid |-> FALSE, error |-> reason]

Step(label, calc) == [label |-> label, calc |-> calc]

BAGS == constantsTable.BAGS_PER_CUBIC_METRE

WastageFactor(wastage) == Add(Whole(1), Div(wastage, Whole(100)))

calculateRectangularSlab(p) ==
  LET length == p.length
      width == p.width
      depth == p.depth
      wastage == Default(p.wastage, constantsTable.DEFAULT_WASTAGE)
  IN IF \/ ~Truthy(length) \/ ~Truthy(width) \/ ~Truthy(depth)
        \/ Le(length, Whole(0)) \/ Le(width, Whole(0)) \/ Le(depth, Whole(0))
       THEN InvalidResult("Please enter valid positive dimensions")
     ELSE
       LET baseVolume == Mul(Mul(length, width), depth)
           totalVolume == applyWastage(baseVolume, wastage)
           bags == calculateBags(totalVolume)
           bagCost == calculateBagCost(bags, Undefined, Undefined)
           readymixCost == calculateReadymixCost(totalVolume, Undefined)
       IN [valid |-> TRUE,
           inputs |-> [length |-> length, width |-> width, depth |-> depth,
                       wastage |-> wastage],
           results |-> [baseVolume |-> baseVolume, totalVolume |-> totalVolume,
                        bags |-> bags, bagCost |-> bagCost,
                        readymixCost |-> readymixCost],
           formula |->
             [description |-> "Volume = Length × Width × Depth",
              steps |-> <<
                Step("Base volume",
                     formatNumber(length, 2) \o " × " \o formatNumber(width, 2)
                     \o " × " \o formatNumber(depth, 2) \o " = "
                     \o formatNumber(baseVolume, 2) \o " m³"),
                Step("Wastage (" \o ToStr(wastage) \o "%)",
                     formatNumber(baseVolume, 2) \o " × "
                     \o ToStr(WastageFactor(wastage)) \o " = "
                     \o formatNumber(totalVolume, 2) \o " m³"),
                Step("Bags needed",
                     formatNumber(totalVolume, 2) \o " × " \o ToStr(BAGS)
                     \o " = " \o ToStr(bags) \o " bags") >>]]

calculatePostHole(p) ==
  LET holeDiameter == p.holeDiameter
      holeDepth == p.holeDepth
      postWidth == Default(p.postWidth, Whole(0))
      postCount == Default(p.postCount, Whole(1))
      postShape == Default(p.postShape, Str("square"))
      wastage == Default(p.wastage, constantsTable.DEFAULT_WASTAGE)
  IN IF \/ ~Truthy(holeDiameter) \/ ~Truthy(holeDepth)
        \/ Le(holeDiameter, Whole(0)) \/ Le(holeDepth, Whole(0))
        \/ Lt(postCount, Whole(1))
       THEN InvalidResult("Please enter valid positive dimensions")
     ELSE
       LET holeRadius == Div(holeDiameter, Whole(2))
           holeVolume == Mul(Mul(constantsTable.PI, Pow2(holeRadius)), holeDepth)
           postVolume ==
             IF Gt(postWidth, Whole(0))
               THEN IF postShape = Str("round")
                      THEN Mul(Mul(constantsTable.PI,
                                   Pow2(Div(postWidth, Whole(2)))), holeDepth)
                    ELSE Mul(Mul(postWidth, postWidth), holeDepth)
             ELSE Whole(0)
           concretePerHole == Sub(holeVolume, postVolume)
           baseVolume == Mul(concretePerHole, postCount)
           totalVolume == applyWastage(baseVolume, wastage)
           bags == calculateBags(totalVolume)
           bagCost == calculateBagCost(bags, Undefined, Undefined)
           readymixCost == calculateReadymixCost(totalVolume, Undefined)
       IN [valid |-> TRUE,
           inputs |-> [holeDiameter |-> holeDiameter, holeDepth |-> holeDepth,
                       postWidth |-> postWidth, postCount |-> postCount,
                       postShape |-> postShape, wastage |-> wastage],
           results |-> [holeVolume |-> holeVolume, postVolume |-> postVolume,
                        concretePerHole |-> concretePerHole,
                        baseVolume |-> baseVolume, totalVolume |-> totalVolume,
                        bags |-> bags, bagCost |-> bagCost,
                        readymixCost |-> readymixCost],
           formula |->
             [description |-> "Volume = (π × r² × depth) - post volume",
              steps |->
                << Step("Hole volume",
                        "π × " \o formatNumber(holeRadius, 2) \o "² × "
                        \o formatNumber(holeDepth, 2) \o " = "
                        \o formatNumber(holeVolume, 4) \o " m³") >>
                \o (IF Gt(postVolume, Whole(0))
                      THEN << Step("Post volume",
                                (IF postShape = Str("round")
                                   THEN "π × "
                                        \o formatNumber(Div(postWidth, Whole(2)), 2)
                                        \o "² × " \o formatNumber(holeDepth, 2)
                                 ELSE formatNumber(postWidth, 2) \o " × "
                                      \o formatNumber(postWidth, 2) \o " × "
                                      \o formatNumber(holeDepth, 2))
                                \o " = " \o formatNumber(postVolume, 4) \o " m³") >>
                    ELSE << >>)
                \o << Step("Concrete per hole",
                           formatNumber(holeVolume, 4) \o " - "
                           \o formatNumber(postVolume, 4) \o " = "
                           \o formatNumber(concretePerHole, 4) \o " m³") >>
                \o (IF Gt(postCount, Whole(1))
                      THEN << Step("Total (" \o ToStr(postCount) \o " holes)",
                                   formatNumber(concretePerHole, 4) \o " × "
                                   \o ToStr(postCount) \o " = "
                                   \o formatNumber(baseVolume, 4) \o " m³") >>
                    ELSE << >>)
                \o << Step("With wastage (" \o ToStr(wastage) \o "%)",
                           formatNumber(baseVolume, 4) \o " × "
                           \o ToStr(WastageFactor(wastage)) \o " = "
                           \o formatNumber(totalVolume, 4) \o " m³"),
                      Step("Bags needed",
                           formatNumber(totalVolume, 4) \o " × " \o ToStr(BAGS)
                           \o " = " \o ToStr(bags) \o " bags") >>]]

calculateFooting(p) ==
  LET length == p.length
      width == p.width
      depth == p.depth
      footingCount == Default(p.footingCount, Whole(1))
      wastage == Default(p.wastage, constantsTable.DEFAULT_WASTAGE)
  IN IF \/ ~Truthy(length) \/ ~Truthy(width) \/ ~Truthy(depth)
        \/ Le(length, Whole(0)) \/ Le(width, Whole(0)) \/ Le(depth, Whole(0))
        \/ Lt(footingCount, Whole(1))
       THEN InvalidResult("Please enter valid positive dimensions")
     ELSE
       LET volumePerFooting == Mul(Mul(length, width), depth)
           baseVolume == Mul(volumePerFooting, footingCount)
           totalVolume == applyWastage(baseVolume, wastage)
           bags == calculateBags(totalVolume)
           bagCost == calculateBagCost(bags, Undefined, Undefined)
           readymixCost == calculateReadymixCost(totalVolume, Undefined)
       IN [valid |-> TRUE,
           inputs |-> [length |-> length, width |-> width, depth |-> depth,
                       footingCount |-> footingCount, wastage |-> wastage],
           results |-> [volumePerFooting |-> volumePerFooting,
                        baseVolume |-> baseVolume, totalVolume |-> totalVolume,
                        bags |-> bags, bagCost |-> bagCost,
                        readymixCost |-> readymixCost],
           formula |->
             [description |-> "Volume = Length × Width × Depth",
              steps |->
                << Step("Volume per footing",
                        formatNumber(length, 2) \o " × " \o formatNumber(width, 2)
                        \o " × " \o formatNumber(depth, 2) \o " = "
                        \o formatNumber(volumePerFooting, 2) \o " m³") >>
                \o (IF Gt(footingCount, Whole(1))
                      THEN << Step("Total (" \o ToStr(footingCount) \o " footings)",
                                   formatNumber(volumePerFooting, 2) \o " × "
                                   \o ToStr(footingCount) \o " = "
                                   \o formatNumber(baseVolume, 2) \o " m³") >>
                    ELSE << >>)
                \o << Step("With wastage (" \o ToStr(wastage) \o "%)",
                           formatNumber(baseVolume, 2) \o " × "
                           \o ToStr(WastageFactor(wastage)) \o " = "
                           \o formatNumber(totalVolume, 2) \o " m³"),
                      Step("Bags needed",
                           formatNumber(totalVolume, 2) \o " × " \o ToStr(BAGS)
                           \o " = " \o ToStr(bags) \o " bags") >>]]

\* the part of calculateColumn after the shape branch has produced
\* volumePerColumn and formulaCalc
ColumnResult(shape, diameter, width, depth, height, columnCount, wastage, volumePerColumn, formulaCalc) ==
  LET baseVolume == Mul(volumePerColumn, columnCount)
      totalVolume == applyWastage(baseVolume, wastage)
      bags == calculateBags(totalVolume)
      bagCost == calculateBagCost(bags, Undefined, Undefined)
      readymixCost == calculateReadymixCost(totalVolume, Undefined)
  IN [valid |-> TRUE,
      inputs |-> [shape |-> shape, diameter |-> diameter, width |-> width,
                  depth |-> IF Truthy(depth) THEN depth ELSE width,
                  height |-> height, columnCount |-> columnCount,
                  wastage |-> wastage],
      results |-> [volumePerColumn |-> volumePerColumn,
                   baseVolume |-> baseVolume, totalVolume |-> totalVolume,
                   bags |-> bags, bagCost |-> bagCost,
                   readymixCost |-> readymixCost],
      formula |->
        [description |-> IF shape = Str("round")
                           THEN "Volume = π × r² × height"
                         ELSE "Volume = width × depth × height",
         steps |->
           << Step("Volume per column", formulaCalc) >>
           \o (IF Gt(columnCount, Whole(1))
                 THEN << Step("Total (" \o ToStr(columnCount) \o " columns)",
                              formatNumber(volumePerColumn, 4) \o " × "
                              \o ToStr(columnCount) \o " = "
                              \o formatNumber(baseVolume, 4) \o " m³") >>
               ELSE << >>)
           \o << Step("With wastage (" \o ToStr(wastage) \o "%)",
                      formatNumber(baseVolume, 4) \o " × "
                      \o ToStr(WastageFactor(wastage)) \o " = "
                      \o formatNumber(totalVolume, 4) \o " m³"),
                 Step("Bags needed",
                      formatNumber(totalVolume, 4) \o " × " \o ToStr(BAGS)
                      \o " = " \o ToStr(bags) \o " bags") >>]]

calculateColumn(p) ==
  LET shape == Default(p.shape, Str("round"))
      diameter == Default(p.diameter, Whole(0))
      width == Default(p.width, Whole(0))
      depth == Default(p.depth, Whole(0))
      height == p.height
      columnCount == Default(p.columnCount, Whole(1))
      wastage == Default(p.wastage, constantsTable.DEFAULT_WASTAGE)
  IN IF ~Truthy(height) \/ Le(height, Whole(0)) \/ Lt(columnCount, Whole(1))
       THEN InvalidResult("Please enter valid positive dimensions")
     ELSE IF shape = Str("round")
       THEN IF ~Truthy(diameter) \/ Le(diameter, Whole(0))
              THEN InvalidResult("Please enter a valid diameter")
            ELSE
              LET radius == Div(diameter, Whole(2))
                  volumePerColumn ==
                    Mul(Mul(constantsTable.PI, Pow2(radius)), height)
              IN ColumnResult(shape, diameter, width, depth, height,
                              columnCount, wastage, volumePerColumn,
                              "π × " \o formatNumber(radius, 2) \o "² × "
                              \o formatNumber(height, 2) \o " = "
                              \o formatNumber(volumePerColumn, 4) \o " m³")
     ELSE IF ~Truthy(width) \/ Le(width, Whole(0))
       THEN InvalidResult("Please enter valid width")
     ELSE
       LET columnDepth == IF Gt(depth, Whole(0)) THEN depth ELSE width
           volumePerColumn == Mul(Mul(width, columnDepth), height)
       IN ColumnResult(shape, diameter, width, depth, height, columnCount,
                       wastage, volumePerColumn,
                       formatNumber(width, 2) \o " × "
                       \o formatNumber(columnDepth, 2) \o " × "
                       \o formatNumber(height, 2) \o " = "
                       \o formatNumber(volumePerColumn, 4) \o " m³")

calculateCircularSlab(p) ==
  LET diameter == p.diameter
      thickness == p.thickness
      wastage == Default(p.wastage, constantsTable.DEFAULT_WASTAGE)
  IN IF \/ ~Truthy(diameter) \/ ~Truthy(thickness)
        \/ Le(diameter, Whole(0)) \/ Le(thickness, Whole(0))
       THEN InvalidResult("Please enter valid positive dimensions")
     ELSE
       LET radius == Div(diameter, Whole(2))
           baseVolume == Mul(Mul(constantsTable.PI, Pow2(radius)), thickness)
           totalVolume == applyWastage(baseVolume, wastage)
           bags == calculateBags(totalVolume)
           bagCost == calculateBagCost(bags, Undefined, Undefined)
           readymixCost == calculateReadymixCost(totalVolume, Undefined)
       IN [valid |-> TRUE,
           inputs |-> [diameter |-> diameter, thickness |-> thickness,
                       wastage |-> wastage],
           results |-> [baseVolume |-> baseVolume, totalVolume |-> totalVolume,
                        bags |-> bags, bagCost |-> bagCost,
                        readymixCost |-> readymixCost],
           formula |->
             [description |-> "Volume = π × r² × thickness",
              steps |-> <<
                Step("Base volume",
                     "π × " \o formatNumber(radius, 2) \o "² × "
                     \o formatNumber(thickness, 2) \o " = "
                     \o formatNumber(baseVolume, 4) \o " m³"),
                Step("Wastage (" \o ToStr(wastage) \o "%)",
                     formatNumber(baseVolume, 4) \o " × "
                     \o ToStr(WastageFactor(wastage)) \o " = "
                     \o formatNumber(totalVolume, 4) \o " m³"),
                Step("Bags needed",
                     formatNumber(totalVolume, 4) \o " × " \o ToStr(BAGS)
                     \o " = " \o ToStr(bags) \o " bags") >>]]

\* variant: six minutes a bag
labourHoursFor_tenth(bags) == Mul(bags, Num(1, 10))

\* bagsLabourHours: about three minutes of mixing a bag
labourHoursFor(bags) == Mul(bags, Num(5, 100))

\* variant: ready-mix as soon as it is cheaper at all
recommendationFor_anyCheaper(volume, costDifference) ==
  IF Lt(volume, Num(3, 10)) THEN "bags"
  ELSE IF Lt(volume, Num(8, 10))
    THEN IF Gt(costDifference, Whole(0)) THEN "readymix" ELSE "either"
  ELSE "readymix"

\* the recommendation chosen by the volume bands and the cost difference
recommendationFor(volume, costDifference) ==
  IF Lt(volume, Num(3, 10)) THEN "bags"
  ELSE IF Lt(volume, Num(8, 10))
    THEN IF Gt(costDifference, Whole(50)) THEN "readymix" ELSE "either"
  ELSE "readymix"

\* variant: the large-volume reasons name no figures
reasonsFor_fixed(volume, costDifference, bags, bagsLabourHours) ==
  IF Lt(volume, Num(3, 10))
    THEN << "Small volume - bags are more practical",
            "No minimum order charges",
            "Mix as needed" >>
  ELSE IF Lt(volume, Num(8, 10))
    THEN IF Gt(costDifference, Whole(50))
           THEN << "Ready-mix is more cost effective for this volume",
                   "Save approximately "
                   \o formatCurrency(MathAbs(costDifference)),
                   "Much faster - poured in one go" >>
         ELSE << "Costs are similar for this volume",
                 "Ready-mix saves time and labour",
                 "Bags offer more flexibility" >>
  ELSE << "Large volume - ready-mix is strongly recommended",
          "Mixing many bags by hand would take hours",
          "Better concrete consistency with ready-mix" >>

\* the reasons listed with the recommendation
reasonsFor(volume, costDifference, bags, bagsLabourHours) ==
  IF Lt(volume, Num(3, 10))
    THEN << "Small volume - bags are more practical",
            "No minimum order charges",
            "Mix as needed" >>
  ELSE IF Lt(volume, Num(8, 10))
    THEN IF Gt(costDifference, Whole(50))
           THEN << "Ready-mix is more cost effective for this volume",
                   "Save approximately "
                   \o formatCurrency(MathAbs(costDifference)),
                   "Much faster - poured in one go" >>
         ELSE << "Costs are similar for this volume",
                 "Ready-mix saves time and labour",
                 "Bags offer more flexibility" >>
  ELSE << "Large volume - ready-mix is strongly recommended",
          "Mixing " \o ToStr(bags) \o " bags by hand would take ~"
          \o formatNumber(bagsLabourHours, 1) \o " hours",
          "Better concrete consistency with ready-mix" >>

compareBagsVsReadymix(p) ==
  LET volume == p.volume
      state == Default(p.state, Null)
      bagPrice == Default(p.bagPrice, Null)
  IN IF ~Truthy(volume) \/ Le(volume, Whole(0))
       THEN InvalidResult("Please enter a valid volume")
     ELSE
       LET bags == calculateBags(volume)
           bagPriceMin == IF Truthy(bagPrice) THEN bagPrice
                          ELSE constantsTable.BAG_PRICE_MIN
           bagPriceMax == IF Truthy(bagPrice) THEN bagPrice
                          ELSE constantsTable.BAG_PRICE_MAX
           bagCost == [min |-> Mul(bags, bagPriceMin),
                       max |-> Mul(bags, bagPriceMax),
                       avg |-> Div(Mul(bags, Add(bagPriceMin, bagPriceMax)),
                                   Whole(2))]
           rm == calculateReadymixCost(volume, state)
           readymixCost == [min |-> rm.min, max |-> rm.max,
                            volume |-> rm.volume,
                            hasMinimumApplied |-> rm.hasMinimumApplied,
                            avg |-> Div(Add(rm.min, rm.max), Whole(2))]
           costDifference == Sub(bagCost.avg, readymixCost.avg)
           bagsLabourHours == labourHoursFor(bags)
           recommendation == recommendationFor(volume, costDifference)
           reasons == reasonsFor(volume, costDifference, bags, bagsLabourHours)
       IN [valid |-> TRUE,
           inputs |-> [volume |-> volume, state |-> state],
           results |->
             [bags |-> [quantity |-> bags, cost |-> bagCost,
                        labourHours |-> bagsLabourHours,
                        weight |-> Mul(bags, Whole(20))],
              readymix |-> [volume |-> readymixCost.volume,
                            cost |-> readymixCost,
                            hasMinimumApplied |-> readymixCost.hasMinimumApplied],
              comparison |->
                [costDifference |-> costDifference,
                 cheaperOption |-> IF Gt(costDifference, Whole(0))
                                     THEN "readymix" ELSE "bags",
                 recommendation |-> recommendation,
                 reasons |-> reasons]]]

\* ===== the static page generator (scripts/generate-long-tail.js) =====
\* The generator is a separate script with constants and formulas of its own.
BAGS_PER_M3 == Whole(108)

BAG_COST_MIN == Num(17, 2)

BAG_COST_MAX == Num(25, 2)

READYMIX_COST_MIN == Whole(280)

READYMIX_COST_MAX == Whole(420)

\* Math.PI as the generator reads it
MathPI == Num(355, 113)

calculateSlabVolume(length, width, depth, wastage) ==
  LET baseVolume == Mul(Mul(length, width), depth)
  IN Mul(baseVolume, Add(Whole(1), Div(wastage, Whole(100))))

calculatePostHoleVolume(holeDiameterMm, holeDepthMm, postWidthMm, postShape, count) ==
  LET holeDiameter == Div(holeDiameterMm, Whole(1000))
      holeDepth == Div(holeDepthMm, Whole(1000))
      postWidth == Div(postWidthMm, Whole(1000))
      holeRadius == Div(holeDiameter, Whole(2))
      holeVolume == Mul(Mul(Mul(MathPI, holeRadius), holeRadius),
                        holeDepth)
      postRadius == Div(postWidth, Whole(2))
      postVolume ==
        IF postShape = Str("round")
          THEN Mul(Mul(Mul(MathPI, postRadius), postRadius),
                   holeDepth)
        ELSE Mul(Mul(postWidth, postWidth), holeDepth)
      concretePerHole == Sub(holeVolume, postVolume)
  IN Mul(Mul(concretePerHole, count), Num(11, 10))

calculateFootingVolume(length, width, depth, count, wastage) ==
  LET baseVolume == Mul(Mul(Mul(length, width), depth), count)
  IN Mul(baseVolume, Add(Whole(1), Div(wastage, Whole(100))))

\* variant: counts whole bags only
generatorCalculateBags_floor(volume) ==
  Neg(Ceil(Neg(Mul(volume, BAGS_PER_M3))))

\* calculateBags of the generator
generatorCalculateBags(volume) == Ceil(Mul(volume, BAGS_PER_M3))

\* the figures generateSlabPage embeds in the page
generateSlabPage(pageData) ==
  LET volume == calculateSlabVolume(pageData.length, pageData.width,
                                    pageData.depth, pageData.wastage)
      bags == generatorCalculateBags(volume)
  IN [volume |-> volume, bags |-> bags,
      bagCostMin |-> Mul(bags, BAG_COST_MIN),
      bagCostMax |-> Mul(bags, BAG_COST_MAX),
      readymixCostMin |-> Mul(volume, READYMIX_COST_MIN),
      readymixCostMax |-> Mul(volume, READYMIX_COST_MAX)]

\* the figures generatePostHolePage embeds in the page
generatePostHolePage(pageData) ==
  LET volume == calculatePostHoleVolume(pageData.holeDiameter,
                                        pageData.holeDepth, pageData.postWidth,
                                        pageData.postShape, pageData.count)
      bags == generatorCalculateBags(volume)
  IN [volume |-> volume, bags |-> bags,
      bagCostMin |-> Mul(bags, BAG_COST_MIN),
      bagCostMax |-> Mul(bags, BAG_COST_MAX)]

\* the figures generateFootingPage embeds in the page
generateFootingPage(pageData) ==
  LET volume == calculateFootingVolume(pageData.length, pageData.width,
                                       pageData.depth, pageData.count,
                                       pageData.wastage)
      bags == generatorCalculateBags(volume)
  IN [volume |-> volume, bags |-> bags,
      bagCostMin |-> Mul(bags, BAG_COST_MIN),
      bagCostMax |-> Mul(bags, BAG_COST_MAX),
      readymixCostMin |-> Mul(volume, READYMIX_COST_MIN),
      readymixCostMax |-> Mul(volume, READYMIX_COST_MAX)]

\* ===== inputs the callers supply =====
\* linear dimensions in metres: missing, null, zero, negative and positive
Dims == {Undefined, Null, Whole(0), Num(-1, 10), Num(1, 10), Num(3, 10),
         Whole(3), Whole(4)}

HoleDims == {Undefined, Whole(0), Num(-1, 10), Num(3, 10), Num(6, 10)}

PostWidths == {Undefined, Whole(0), Num(-1, 10), Num(1, 10), Num(3, 10),
               Num(6, 10)}

ColumnDims == {Undefined, Whole(0), Num(-1, 10), Num(3, 10), Num(12, 10)}

Thicknesses == {Undefined, Whole(0), Num(-1, 10), Num(1, 10), Num(3, 40)}

Counts == {Undefined, Null} \cup {Whole(k) : k \in 0..MaxCount}

Shapes == {Undefined, Str("round"), Str("square"), Str("hexagon")}

Wastages == {Undefined, Whole(0), Whole(5), Whole(10), Whole(-10)}

\* volumes in twentieths of a cubic metre
Volumes == {Undefined, Null} \cup {Num(k, 20) : k \in -2..MaxVolume}

States == {Undefined, Null, Str(""), Str("NSW"), Str("xx"), Str("constructor")}
          \cup {Str(r) : r \in RegionCodes}

BagPrices == {Undefined, Null, Whole(0), Whole(2), Whole(4), Whole(5), Whole(10)}

\* page data of the generator: positive numbers, post holes in millimetres
PageLengths == {Whole(1), Whole(3), Num(2, 5)}

PageWidths == {Whole(1), Whole(4), Num(9, 20)}

PageDepths == {Num(1, 10), Num(3, 10)}

PageWastages == {Whole(0), Whole(5), Whole(10)}

PageCounts == {Whole(k) : k \in 1..MaxCount}

PageHoleMm == {Whole(300), Whole(600)}

PagePostMm == {Whole(0), Whole(100), Whole(600)}

PagePostShapes == {Str("round"), Str("square")}

\* ===== the page (UI module): results panel, debounce, info modals =====
\* keys of the elements object renderResults reads; each names one element
ElementKeys == {"volume", "baseVolume", "bags", "bagCost", "readymixCost"}

\* the elements objects the pages pass to renderResults
ElementMaps == {ElementKeys, {"volume", "bags"}}

\* a result element as the markup ships it, and as renderResults blanks it
Placeholder == [text |-> "--", placeholder |-> TRUE]

NoFormula == [description |-> "", steps |-> << >>]

\* the text renderResults writes into the element of a key
FigureText(key, results) ==
  CASE key = "volume" -> formatNumber(results.totalVolume, 2) \o " m³"
    [] key = "baseVolume" -> formatNumber(results.baseVolume, 2) \o " m³"
    [] key = "bags" -> ToStr(results.bags)
    [] key = "bagCost" ->
         formatCurrency(results.bagCost.min) \o " <span>-</span> "
         \o formatCurrency(results.bagCost.max)
    [] key = "readymixCost" ->
         formatCurrency(results.readymixCost.min) \o " <span>-</span> "
         \o formatCurrency(results.readymixCost.max)

\* variant: an Invalid record leaves the elements as they are
renderResults_keep(r, els, d) ==
  IF ~r.valid THEN d
  ELSE [k \in DOMAIN d |->
          IF k \in els
            THEN [text |-> FigureText(k, r.results), placeholder |-> FALSE]
          ELSE d[k]]

\* renderResults(result, elements): the result elements afterwards
renderResults(r, els, d) ==
  IF ~r.valid
    THEN [k \in DOMAIN d |-> IF k \in els THEN Placeholder ELSE d[k]]
  ELSE [k \in DOMAIN d |->
          IF k \in els
            THEN [text |-> FigureText(k, r.results), placeholder |-> FALSE]
          ELSE d[k]]

\* renderFormula(result, containerId): the formula container afterwards
renderFormula(r, box) ==
  IF ~r.valid THEN box
  ELSE [description |-> r.formula.description, steps |-> r.formula.steps]

\* values a form field can hold: empty, zero, positive
DiameterValues == {Undefined, Whole(0), Num(12, 10)}

ThicknessValues == {Whole(0), Num(1, 10)}

\* the calculateFn a page passes: reads the form, calls its calculator
calculateFn(f) ==
  calculateCircularSlab([diameter |-> f.diameter, thickness |-> f.thickness,
                         wastage |-> Undefined])

\* variant: cancels nothing
clearTimeout_noop(pending, id) == pending

\* clearTimeout(id): the pending timers afterwards
clearTimeout(pending, id) == {t \in pending : t.id # id}

\* setTimeout(later, wait), later bound to args: the pending timers afterwards
setTimeout(pending, id, args) ==
  pending \cup {[id |-> id, remaining |-> DebounceTicks, args |-> args]}

ModalIds == 1..MaxModals

\* closeModal(modal, backdrop, trigger): the page's modal state afterwards
closeModal(m, st) ==
  [modalOpen |-> [st.modalOpen EXCEPT ![m] = FALSE],
   backdropOpen |-> [st.backdropOpen EXCEPT ![m] = FALSE],
   ariaExpanded |-> [st.ariaExpanded EXCEPT ![m] = FALSE],
   bodyOverflow |-> ""]

ModalState ==
  [modalOpen |-> modalOpen, backdropOpen |-> backdropOpen,
   ariaExpanded |-> ariaExpanded, bodyOverflow |-> bodyOverflow]

RECURSIVE closeAll(_, _)
\* the Escape handler: closeModal for each open modal
closeAll(open, st) ==
  IF open = {} THEN st
  ELSE LET m == CHOOSE x \in open : TRUE
       IN closeAll(open \ {m}, closeModal(m, st))

NoInvocation == [args |-> 0, quiet |-> 0]

NothingRendered == [valid |-> FALSE, error |-> ""]

\* the renderFn a page passes: results panel and formula breakdown
renderFn(r, els, d, box) ==
  [dom |-> renderResults(r, els, d), formulaBox |-> renderFormula(r, box)]

\* the page before its scripts have run
PageAsLoaded ==
  /\ phase = "loading"
  /\ form = [diameter |-> Undefined, thickness |-> Whole(0)]
  /\ elements = {}
  /\ dom = [k \in ElementKeys |-> Placeholder]
  /\ formulaBox = NoFormula
  /\ timers = {}
  /\ timeout = 0
  /\ modalOpen = [m \in ModalIds |-> FALSE]
  /\ backdropOpen = [m \in ModalIds |-> FALSE]
  /\ ariaExpanded = [m \in ModalIds |-> FALSE]
  /\ bodyOverflow = ""
  /\ calls = 0
  /\ bursts = 0
  /\ invocations = 0
  /\ lastInvocation = NoInvocation
  /\ quiet = 0
  /\ lastRendered = NothingRendered

\* ===== the state machine: one action per exported function =====
\* The caller invokes one function at a time, uses the returned record and
\* drops it; op names the function whose record is in hand ("idle": none).
\* no comparison result is held by a caller
NothingKept ==
  [kept |-> FALSE, callsSince |-> FALSE,
   params |-> [volume |-> Undefined, state |-> Undefined,
               bagPrice |-> Undefined],
   recommendation |-> "", reasons |-> << >>]

Init ==
  /\ constantsTable = ConstantsTable
  /\ op = "idle"
  /\ params = [none |-> Undefined]
  /\ result = Undefined
  /\ earlier = NothingKept
  /\ PageAsLoaded

Idle == op = "idle"

\* a comparison a caller keeps has seen another function called since
Since(name) ==
  IF earlier.kept /\ name # "compareBagsVsReadymix"
    THEN [earlier EXCEPT !.callsSince = TRUE]
  ELSE earlier

\* variant: a call with a region leaves that region's minimum price raised
Call_repricing(name, p, r) ==
  /\ op' = name
  /\ params' = p
  /\ result' = r
  /\ earlier' = Since(name)
  /\ constantsTable' =
       IF name = "calculateReadymixCost"
         THEN [constantsTable EXCEPT !.READYMIX_PRICES.nsw.min = Whole(251)]
       ELSE constantsTable
  /\ UNCHANGED pageVars

\* variant: a call leaves the minimum order in the constants table changed
Call_tuning(name, p, r) ==
  /\ op' = name
  /\ params' = p
  /\ result' = r
  /\ earlier' = Since(name)
  /\ constantsTable' =
       [constantsTable EXCEPT !.READYMIX_MINIMUM_ORDER = Whole(1)]
  /\ UNCHANGED pageVars

Call(name, p, r) ==
  /\ op' = name
  /\ params' = p
  /\ result' = r
  /\ earlier' = Since(name)
  /\ UNCHANGED constantsTable
  /\ UNCHANGED pageVars

MmToMetres ==
  /\ Idle
  /\ \E mm \in {Whole(0), Whole(75), Whole(100), Whole(300), Whole(-50)} :
       Call("mmToMetres", [mm |-> mm], mmToMetres(mm))

MetresToMm ==
  /\ Idle
  /\ \E m \in Volumes \ {Undefined, Null} :
       Call("metresToMm", [m |-> m], metresToMm(m))

ApplyWastage ==
  /\ Idle
  /\ \E v \in Volumes \ {Undefined, Null}, w \in Wastages \ {Undefined} :
       Call("applyWastage", [volume |-> v, wastagePercent |-> w], applyWastage(v, w))

CalculateBags ==
  /\ Idle
  /\ \E v \in Volumes \ {Undefined, Null} :
       Call("calculateBags", [volume |-> v], calculateBags(v))

CalculateBagCost ==
  /\ Idle
  /\ \E b \in {Whole(k) : k \in 0..MaxCount}, lo \in {Undefined, Whole(9)},
        hi \in {Undefined, Whole(12)} :
       Call("calculateBagCost", [bags |-> b, priceMin |-> lo, priceMax |-> hi],
            calculateBagCost(b, lo, hi))

CalculateReadymixCost ==
  /\ Idle
  /\ \E v \in Volumes \ {Undefined, Null}, st \in States :
       Call("calculateReadymixCost", [volume |-> v, state |-> st],
            calculateReadymixCost(v, st))

CalculateRectangularSlab ==
  /\ Idle
  /\ \E l \in Dims, w \in Dims, d \in Dims, wa \in Wastages :
       LET p == [length |-> l, width |-> w, depth |-> d, wastage |-> wa]
       IN Call("calculateRectangularSlab", p, calculateRectangularSlab(p))

CalculatePostHole ==
  /\ Idle
  /\ \E hd \in HoleDims, hh \in HoleDims, pw \in PostWidths, pc \in Counts,
        ps \in Shapes, wa \in Wastages :
       LET p == [holeDiameter |-> hd, holeDepth |-> hh, postWidth |-> pw,
                 postCount |-> pc, postShape |-> ps, wastage |-> wa]
       IN Call("calculatePostHole", p, calculatePostHole(p))

CalculateFooting ==
  /\ Idle
  /\ \E l \in Dims, w \in ColumnDims, d \in ColumnDims, fc \in Counts,
        wa \in Wastages :
       LET p == [length |-> l, width |-> w, depth |-> d, footingCount |-> fc,
                 wastage |-> wa]
       IN Call("calculateFooting", p, calculateFooting(p))

CalculateColumn ==
  /\ Idle
  /\ \E sh \in Shapes, di \in ColumnDims, w \in ColumnDims, d \in ColumnDims,
        h \in {Undefined, Whole(0), Num(-1, 10), Num(12, 5)}, cc \in Counts,
        wa \in {Undefined, Whole(0), Whole(-10)} :
       LET p == [shape |-> sh, diameter |-> di, width |-> w, depth |-> d,
                 height |-> h, columnCount |-> cc, wastage |-> wa]
       IN Call("calculateColumn", p, calculateColumn(p))

CalculateCircularSlab ==
  /\ Idle
  /\ \E di \in ColumnDims, th \in Thicknesses, wa \in Wastages :
       LET p == [diameter |-> di, thickness |-> th, wastage |-> wa]
       IN Call("calculateCircularSlab", p, calculateCircularSlab(p))

CompareBagsVsReadymix ==
  /\ Idle
  /\ \E v \in Volumes, st \in States, bp \in BagPrices :
       LET p == [volume |-> v, state |-> st, bagPrice |-> bp]
       IN Call("compareBagsVsReadymix", p, compareBagsVsReadymix(p))

\* the caller has rendered the record and lets go of it
GenerateSlabPage ==
  /\ Idle
  /\ \E l \in PageLengths, w \in PageWidths, d \in PageDepths,
        wa \in PageWastages :
       LET p == [length |-> l, width |-> w, depth |-> d, wastage |-> wa]
       IN Call("generateSlabPage", p, generateSlabPage(p))

GeneratePostHolePage ==
  /\ Idle
  /\ \E hd \in PageHoleMm, hh \in PageHoleMm, pw \in PagePostMm,
        ps \in PagePostShapes, c \in PageCounts :
       LET p == [holeDiameter |-> hd, holeDepth |-> hh, postWidth |-> pw,
                 postShape |-> ps, count |-> c]
       IN Call("generatePostHolePage", p, generatePostHolePage(p))

GenerateFootingPage ==
  /\ Idle
  /\ \E l \in PageLengths, w \in PageWidths, d \in PageDepths,
        c \in PageCounts, wa \in PageWastages :
       LET p == [length |-> l, width |-> w, depth |-> d, count |-> c,
                 wastage |-> wa]
       IN Call("generateFootingPage", p, generateFootingPage(p))

Discard ==
  /\ op # "idle"
  /\ op' = "idle"
  /\ params' = [none |-> Undefined]
  /\ result' = Undefined
  /\ UNCHANGED <<constantsTable, earlier>>
  /\ UNCHANGED pageVars

Next ==
  \/ MmToMetres
  \/ MetresToMm
  \/ ApplyWastage
  \/ CalculateBags
  \/ CalculateBagCost
  \/ CalculateReadymixCost
  \/ CalculateRectangularSlab
  \/ CalculatePostHole
  \/ CalculateFooting
  \/ CalculateColumn
  \/ CalculateCircularSlab
  \/ CompareBagsVsReadymix
  \/ GenerateSlabPage
  \/ GeneratePostHolePage
  \/ GenerateFootingPage
  \/ Discard

Spec == Init /\ [][Next]_vars

\* the comparisons a caller keeps the answer of
KeptVolumes == {Num(6, 10), Num(9, 10)}

KeptStates == {Undefined, Str("constructor")}

KeptBagPrices == {Undefined, Whole(4)}

\* a caller keeps the answer of the comparison just made
Keep ==
  /\ op = "compareBagsVsReadymix"
  /\ ~earlier.kept
  /\ params.volume \in KeptVolumes
  /\ params.state \in KeptStates
  /\ params.bagPrice \in KeptBagPrices
  /\ result.valid
  /\ earlier' = [kept |-> TRUE, callsSince |-> FALSE, params |-> params,
                 recommendation |-> result.results.comparison.recommendation,
                 reasons |-> result.results.comparison.reasons]
  /\ UNCHANGED <<constantsTable, op, params, result>>
  /\ UNCHANGED pageVars

NextRepeat == Next \/ Keep

SpecRepeat == Init /\ [][NextRepeat]_vars

\* ===== the state machine of the page: one action per handler =====
\* variant: wires the listeners without the initial calculation
InitCalculatorInputs_listenOnly ==
  /\ phase = "loading"
  /\ \E d \in DiameterValues, th \in ThicknessValues, els \in ElementMaps :
       /\ form' = [diameter |-> d, thickness |-> th]
       /\ elements' = els
  /\ phase' = "ready"
  /\ UNCHANGED <<dom, formulaBox, lastRendered>>
  /\ UNCHANGED <<timers, timeout, modalVars, engineVars>>
  /\ UNCHANGED <<calls, bursts, invocations, lastInvocation, quiet>>

\* initCalculatorInputs on a page with the given fields and result elements
InitCalculatorInputs ==
  /\ phase = "loading"
  /\ \E d \in DiameterValues, th \in ThicknessValues, els \in ElementMaps :
       LET f == [diameter |-> d, thickness |-> th]
           initialResult == calculateFn(f)
           out == renderFn(initialResult, els, dom, formulaBox)
       IN /\ form' = f
          /\ elements' = els
          /\ dom' = out.dom
          /\ formulaBox' = out.formulaBox
          /\ lastRendered' = initialResult
  /\ phase' = "ready"
  /\ UNCHANGED <<timers, timeout, modalVars, engineVars>>
  /\ UNCHANGED <<calls, bursts, invocations, lastInvocation, quiet>>

\* an input or change event on a field: the field has its new value and the
\* listener, debounce's executedFunction, runs with the event as argument
InputEvent ==
  /\ phase = "ready"
  /\ calls < MaxEvents
  /\ \E d \in DiameterValues, th \in ThicknessValues :
       /\ d = form.diameter \/ th = form.thickness
       /\ form' = [diameter |-> d, thickness |-> th]
  /\ timers' = setTimeout(clearTimeout(timers, timeout), calls + 1, calls + 1)
  /\ timeout' = calls + 1
  /\ calls' = calls + 1
  /\ bursts' = IF timers = {} THEN bursts + 1 ELSE bursts
  /\ quiet' = 0
  /\ UNCHANGED <<phase, elements, dom, formulaBox, modalVars, engineVars>>
  /\ UNCHANGED <<invocations, lastInvocation, lastRendered>>

\* a tick of the clock at which no timer is due
Elapse ==
  /\ timers # {}
  /\ \A t \in timers : t.remaining > 1
  /\ timers' = {[t EXCEPT !.remaining = @ - 1] : t \in timers}
  /\ quiet' = quiet + 1
  /\ UNCHANGED <<phase, form, elements, dom, formulaBox, timeout>>
  /\ UNCHANGED <<modalVars, engineVars>>
  /\ UNCHANGED <<calls, bursts, invocations, lastInvocation, lastRendered>>

\* the tick at which a timer is due: debounce's later runs, and with it the
\* debounced function of initCalculatorInputs
TimerFires ==
  /\ \E t \in timers :
       /\ t.remaining = 1
       /\ timers' = clearTimeout(timers \ {t}, timeout)
       /\ lastInvocation' = [args |-> t.args, quiet |-> quiet + 1]
  /\ LET r == calculateFn(form)
         out == renderFn(r, elements, dom, formulaBox)
     IN /\ dom' = out.dom
        /\ formulaBox' = out.formulaBox
        /\ lastRendered' = r
  /\ invocations' = invocations + 1
  /\ quiet' = quiet + 1
  /\ UNCHANGED <<phase, form, elements, timeout, modalVars, engineVars>>
  /\ UNCHANGED <<calls, bursts>>

SetModalState(st) ==
  /\ modalOpen' = st.modalOpen
  /\ backdropOpen' = st.backdropOpen
  /\ ariaExpanded' = st.ariaExpanded
  /\ bodyOverflow' = st.bodyOverflow

\* click on the trigger of a modal
TriggerClick ==
  /\ \E m \in ModalIds :
       SetModalState([modalOpen |-> [modalOpen EXCEPT ![m] = TRUE],
                      backdropOpen |-> [backdropOpen EXCEPT ![m] = TRUE],
                      ariaExpanded |-> [ariaExpanded EXCEPT ![m] = TRUE],
                      bodyOverflow |-> "hidden"])
  /\ UNCHANGED <<formVars, historyVars, engineVars>>

\* click on the close button of a modal that is on screen
CloseButtonClick ==
  /\ \E m \in ModalIds :
       /\ modalOpen[m]
       /\ SetModalState(closeModal(m, ModalState))
  /\ UNCHANGED <<formVars, historyVars, engineVars>>

\* click on a backdrop that is on screen
BackdropClick ==
  /\ \E m \in ModalIds :
       /\ backdropOpen[m]
       /\ SetModalState(closeModal(m, ModalState))
  /\ UNCHANGED <<formVars, historyVars, engineVars>>

\* the Escape key
EscapeKey ==
  /\ SetModalState(closeAll({m \in ModalIds : modalOpen[m]}, ModalState))
  /\ UNCHANGED <<formVars, historyVars, engineVars>>

NextPage ==
  \/ InitCalculatorInputs
  \/ InputEvent
  \/ Elapse
  \/ TimerFires
  \/ TriggerClick
  \/ CloseButtonClick
  \/ BackdropClick
  \/ EscapeKey

SpecPage == Init /\ [][NextPage]_vars

\* what a step of TimerFires does to the pending timers
DueTimerRuns ==
  \E t \in timers :
    /\ t.remaining = 1
    /\ timers' = clearTimeout(timers \ {t}, timeout)

\* the browser runs the page's script, lets time pass and runs due timers
\* (the steps of TimerFires are the steps of the page that are DueTimerRuns)
SpecPageFair ==
  /\ SpecPage
  /\ WF_vars(InitCalculatorInputs)
  /\ WF_vars(Elapse)
  /\ WF_timers(DueTimerRuns)

\* ===== properties =====
\* Exact rational arithmetic used to state the properties, written out on
\* numerators and denominators independently of the engine's operators.
\* a/b and c/d over their least common denominator: <<a', c', lcd>>
OverCommon(a, b) ==
  LET g == Gcd(a.d, b.d)
  IN << a.n * (b.d \div g), b.n * (a.d \div g), (a.d \div g) * b.d >>

QLt(a, b) == OverCommon(a, b)[1] < OverCommon(a, b)[2]

QLe(a, b) == OverCommon(a, b)[1] <= OverCommon(a, b)[2]

QTimes(a, b) ==
  LET g1 == Gcd(a.n, b.d)
      g2 == Gcd(b.n, a.d)
  IN Num((a.n \div g1) * (b.n \div g2), (a.d \div g2) * (b.d \div g1))

QMinus(a, b) ==
  LET c == OverCommon(a, b) IN Num(c[1] - c[2], c[3])

IsInteger(x) == x.t = "number" /\ x.d = 1

\* b is the least integer that is at least x
IsRoundedUp(b, x) ==
  /\ IsInteger(b)
  /\ QLe(x, b)
  /\ QLt(QMinus(b, Whole(1)), x)

QCeil(x) == Whole(-((-x.n) \div x.d))

OneHundredEight == Whole(108)

WithWastage(v, w) == QTimes(v, Num(100 * w.d + w.n, 100 * w.d))

\* C1: calculateBags(v) is the least integer that is at least v x 108 (it
\* never under-reports), and no smaller volume of the input range gets more
\* bags than v does.
C1_BagsRoundUp ==
  op = "calculateBags" =>
    /\ IsRoundedUp(result, QTimes(params.volume, OneHundredEight))
    /\ \A v2 \in Volumes \ {Undefined, Null} :
         QLe(v2, params.volume) => QLe(calculateBags(v2), result)

C1_Witness ==
  /\ op = "calculateBags"
  /\ params.volume = Num(1, 20)
  /\ result = Whole(6)

CountedOps == {"calculatePostHole", "calculateFooting", "calculateColumn"}

PerItemVolume ==
  CASE op = "calculatePostHole" -> result.results.concretePerHole
    [] op = "calculateFooting" -> result.results.volumePerFooting
    [] op = "calculateColumn" -> result.results.volumePerColumn

ItemCount ==
  CASE op = "calculatePostHole" -> result.inputs.postCount
    [] op = "calculateFooting" -> result.inputs.footingCount
    [] op = "calculateColumn" -> result.inputs.columnCount

\* C2: the counted calculators round up once, on the wastage-applied volume
\* of all items together, so the bag count is at most the count times the
\* rounded-up bags of one item.
C2_RoundOnceOnTotal ==
  (op \in CountedOps /\ result.valid) =>
    LET w == result.inputs.wastage
        whole == WithWastage(QTimes(PerItemVolume, ItemCount), w)
        one == WithWastage(PerItemVolume, w)
    IN /\ IsRoundedUp(result.results.bags, QTimes(whole, OneHundredEight))
       /\ QLe(result.results.bags,
              QTimes(ItemCount, QCeil(QTimes(one, OneHundredEight))))

\* three posts whose bags, rounded per post, would be 3 x 5 = 15
C2_Witness ==
  /\ op = "calculatePostHole"
  /\ result.valid
  /\ result.inputs.postCount = Whole(3)
  /\ result.inputs.holeDiameter = Num(3, 10)
  /\ result.inputs.holeDepth = Num(6, 10)
  /\ result.inputs.postWidth = Num(1, 10)
  /\ result.inputs.postShape = Str("square")
  /\ result.inputs.wastage = Whole(10)
  /\ result.results.bags = Whole(13)

Pi == Num(355, 113)

Half(x) == Num(x.n, 2 * x.d)

Cylinder(diameter, depth) ==
  QTimes(QTimes(Pi, QTimes(Half(diameter), Half(diameter))), depth)

\* the post volume the post-hole formula subtracts
ExpectedPostVolume(postWidth, postShape, holeDepth) ==
  IF ~QLt(Whole(0), postWidth) THEN Whole(0)
  ELSE IF postShape = Str("round") THEN Cylinder(postWidth, holeDepth)
  ELSE QTimes(QTimes(postWidth, postWidth), holeDepth)

IsFencePostExample(i) ==
  /\ i.holeDiameter = Num(3, 10)
  /\ i.holeDepth = Num(6, 10)
  /\ i.postWidth = Num(1, 10)
  /\ i.postShape = Str("square")
  /\ i.postCount = Whole(1)
  /\ i.wastage = Whole(10)

\* C3: concretePerHole is the hole cylinder minus the post volume (cylinder
\* for a round post, width squared times depth for a square one, nothing
\* without a post width); the subtraction comes before the multiplication by
\* postCount and before wastage.  The 300 mm x 600 mm hole with one 100 mm
\* square post at 10% wastage needs 5 bags.
C3_PostHoleFormula ==
  (op = "calculatePostHole" /\ result.valid) =>
    LET i == result.inputs
        r == result.results
    IN /\ r.holeVolume = Cylinder(i.holeDiameter, i.holeDepth)
       /\ r.postVolume = ExpectedPostVolume(i.postWidth, i.postShape, i.holeDepth)
       /\ r.concretePerHole = QMinus(r.holeVolume, r.postVolume)
       /\ r.baseVolume = QTimes(r.concretePerHole, i.postCount)
       /\ r.totalVolume = WithWastage(r.baseVolume, i.wastage)
       /\ IsFencePostExample(i) => r.bags = Whole(5)

C3_Witness ==
  /\ op = "calculatePostHole"
  /\ result.valid
  /\ IsFencePostExample(result.inputs)
  /\ result.results.postVolume = Num(6, 1000)
  /\ result.results.bags = Whole(5)

PostFitsHoleWidth(i) == IsNum(i.postWidth) /\ QLe(i.postWidth, i.holeDiameter)

\* C4: in a Valid post-hole result with wastage >= 0 the net concrete volume
\* (per hole, base and total) is not negative when the post width or
\* diameter is at most the hole diameter.
C4_NetVolumeNotNegative ==
  (/\ op = "calculatePostHole"
   /\ result.valid
   /\ QLe(Whole(0), result.inputs.wastage)
   /\ PostFitsHoleWidth(result.inputs)) =>
    /\ QLe(Whole(0), result.results.concretePerHole)
    /\ QLe(Whole(0), result.results.baseVolume)
    /\ QLe(Whole(0), result.results.totalVolume)

\* the post volume the given parameters ask to subtract exceeds the hole
PostExceedsHole(p) ==
  /\ IsNum(p.holeDiameter) /\ IsNum(p.holeDepth) /\ IsNum(p.postWidth)
  /\ QLt(Whole(0), p.holeDiameter) /\ QLt(Whole(0), p.holeDepth)
  /\ QLt(Cylinder(p.holeDiameter, p.holeDepth),
         ExpectedPostVolume(p.postWidth, Default(p.postShape, Str("square")),
                            p.holeDepth))

\* C5: calculatePostHole returns Invalid for every configuration whose
\* subtracted post volume exceeds the hole volume.
C5_RejectsPostLargerThanHole ==
  (op = "calculatePostHole" /\ PostExceedsHole(params)) => ~result.valid

\* a dimension that is missing, zero or negative
BadDimension(x) == x.t \in {"undefined", "null", "nan"} \/ (IsNum(x) /\ x.n <= 0)

CountBelowOne(c) == IsNum(c) /\ c.n < c.d

\* the call in hand lacks a required dimension or has a count below one
RejectableInput ==
  CASE op = "calculateRectangularSlab" ->
         BadDimension(params.length) \/ BadDimension(params.width)
         \/ BadDimension(params.depth)
    [] op = "calculatePostHole" ->
         BadDimension(params.holeDiameter) \/ BadDimension(params.holeDepth)
         \/ CountBelowOne(params.postCount)
    [] op = "calculateFooting" ->
         BadDimension(params.length) \/ BadDimension(params.width)
         \/ BadDimension(params.depth) \/ CountBelowOne(params.footingCount)
    [] op = "calculateColumn" ->
         \/ BadDimension(params.height)
         \/ CountBelowOne(params.columnCount)
         \/ IF params.shape \in {Undefined, Str("round")}
              THEN BadDimension(params.diameter)
            ELSE BadDimension(params.width)
    [] op = "calculateCircularSlab" ->
         BadDimension(params.diameter) \/ BadDimension(params.thickness)
    [] op = "compareBagsVsReadymix" -> BadDimension(params.volume)
    [] OTHER -> FALSE

\* C6: a calculator given a missing, zero or negative required dimension, or
\* a count below one, returns valid = false with a non-empty reason; the
\* comparator does so for a missing or non-positive volume.
C6_InvalidOnBadInput ==
  RejectableInput =>
    /\ result.valid = FALSE
    /\ "error" \in DOMAIN result
    /\ result.error # ""

C6_Witness ==
  /\ op = "calculateColumn"
  /\ params.shape = Str("square")
  /\ params.width = Undefined
  /\ params.height = Num(12, 5)
  /\ params.columnCount = Whole(2)
  /\ result.valid = FALSE
  /\ result.error = "Please enter valid width"

ShapeOps == {"calculateRectangularSlab", "calculatePostHole", "calculateFooting",
             "calculateColumn", "calculateCircularSlab"}

\* the original reading of C7: every Valid record, the comparator's too,
\* carries inputs, results and formula
C7_AllOrNothingWithFormula ==
  op \in ShapeOps \cup {"compareBagsVsReadymix"} =>
    IF result.valid
      THEN DOMAIN result = {"valid", "inputs", "results", "formula"}
    ELSE DOMAIN result = {"valid", "error"}

\* C7 (amended): an Invalid record carries only valid = false and the reason;
\* a Valid record of a shape calculator carries inputs, results and formula,
\* a Valid record of the comparator carries inputs and results; none carries
\* an error field next to figures.
C7_AllOrNothing ==
  /\ op \in ShapeOps =>
       IF result.valid
         THEN DOMAIN result = {"valid", "inputs", "results", "formula"}
       ELSE DOMAIN result = {"valid", "error"}
  /\ op = "compareBagsVsReadymix" =>
       IF result.valid
         THEN DOMAIN result = {"valid", "inputs", "results"}
       ELSE DOMAIN result = {"valid", "error"}

C7_Witness ==
  /\ op = "compareBagsVsReadymix"
  /\ result.valid
  /\ "formula" \notin DOMAIN result
  /\ "error" \notin DOMAIN result

HalfCubicMetre == Num(1, 2)

IsRegion(state) == state.t = "string" /\ state.s \in RegionCodes

IsInheritedName(state) == state.t = "string" /\ state.s \in ObjectPrototypeKeys

\* the price range the region rule names for a state argument
RegionRulePrice(state) ==
  IF IsRegion(state)
    THEN [min |-> READYMIX_PRICES[state.s].min, max |-> READYMIX_PRICES[state.s].max]
  ELSE [min |-> Whole(200), max |-> Whole(420)]

\* C8: the billed volume is max(v, 0.5), the flag is set iff v < 0.5, and the
\* cost range is the billed volume times the per-m3 price range (region or
\* default).  v = 0.05 is billed as 0.5 with the flag set.
C8_BilledVolume ==
  op = "calculateReadymixCost" =>
    LET v == params.volume
        billed == IF QLt(v, HalfCubicMetre) THEN HalfCubicMetre ELSE v
    IN /\ result.volume = billed
       /\ result.hasMinimumApplied = QLt(v, HalfCubicMetre)
       /\ ~IsInheritedName(params.state) =>
            /\ result.min = QTimes(billed, RegionRulePrice(params.state).min)
            /\ result.max = QTimes(billed, RegionRulePrice(params.state).max)
       /\ v = Num(1, 20) => (result.volume = Num(1, 2) /\ result.hasMinimumApplied)

C8_Witness ==
  /\ op = "calculateReadymixCost"
  /\ params.volume = Num(1, 20)
  /\ params.state = Str("qld")
  /\ result.volume = Num(1, 2)
  /\ result.hasMinimumApplied
  /\ result.min = Whole(115)
  /\ result.max = Whole(175)

\* C9: the region's price range is used exactly for the eight recognized
\* codes; every other state argument gets the default 200-420 per m3.
C9_RegionOrDefault ==
  op = "calculateReadymixCost" =>
    /\ result.min = QTimes(result.volume, RegionRulePrice(params.state).min)
    /\ result.max = QTimes(result.volume, RegionRulePrice(params.state).max)

\* C10: whatever the region and the bag price, a Valid comparison recommends
\* 'bags' below 0.3 m3 and 'readymix' from 0.8 m3 on; 0.3 itself is in the
\* middle band (not 'bags') and 0.8 itself gives 'readymix'.
C10_VolumeBands ==
  (op = "compareBagsVsReadymix" /\ result.valid) =>
    LET v == params.volume
        rec == result.results.comparison.recommendation
    IN /\ QLt(v, Num(3, 10)) => rec = "bags"
       /\ QLe(Num(8, 10), v) => rec = "readymix"
       /\ (QLe(Num(3, 10), v) /\ QLt(v, Num(8, 10))) => rec \in {"readymix", "either"}

\* at 0.8 m3 with $2 bags the bags are cheaper, and ready-mix is recommended
C10_Witness ==
  /\ op = "compareBagsVsReadymix"
  /\ result.valid
  /\ params.volume = Num(8, 10)
  /\ params.bagPrice = Whole(2)
  /\ result.results.comparison.cheaperOption = "bags"
  /\ result.results.comparison.recommendation = "readymix"

InMiddleBand(v) == IsNum(v) /\ QLe(Num(3, 10), v) /\ QLt(v, Num(8, 10))

\* the bag price range a comparison uses: the custom price when one is
\* given (and not zero), else 8.50 - 12.50
BagPriceRange(bagPrice) ==
  IF IsNum(bagPrice) /\ bagPrice.n # 0
    THEN [min |-> bagPrice, max |-> bagPrice]
  ELSE [min |-> Num(17, 2), max |-> Num(25, 2)]

QPlus(a, b) ==
  LET c == OverCommon(a, b) IN Num(c[1] + c[2], c[3])

MeanOf(range) == QTimes(QPlus(range.min, range.max), Num(1, 2))

ExpectedBagMean(v, bagPrice) ==
  QTimes(QCeil(QTimes(v, OneHundredEight)), MeanOf(BagPriceRange(bagPrice)))

ExpectedReadymixMean(v, state) ==
  LET billed == IF QLt(v, HalfCubicMetre) THEN HalfCubicMetre ELSE v
  IN QTimes(billed, MeanOf(RegionRulePrice(state)))

\* C11: in the middle band the recommendation is 'readymix' exactly when the
\* mean ready-mix cost (billed volume, region prices) is more than $50 below
\* the mean bag cost, and 'either' otherwise, a difference of exactly $50
\* and cheaper bags included.
C11_MiddleBandByCost ==
  (/\ op = "compareBagsVsReadymix"
   /\ result.valid
   /\ InMiddleBand(params.volume)
   /\ ~IsInheritedName(params.state)) =>
    LET diff == QMinus(ExpectedBagMean(params.volume, params.bagPrice),
                       ExpectedReadymixMean(params.volume, params.state))
        rec == result.results.comparison.recommendation
    IN /\ result.results.comparison.costDifference = diff
       /\ rec = IF QLt(Whole(50), diff) THEN "readymix" ELSE "either"

\* 65 bags at $4 against 0.6 m3 of Tasmanian ready-mix: exactly $50 apart
C11_Witness ==
  /\ op = "compareBagsVsReadymix"
  /\ result.valid
  /\ params.volume = Num(6, 10)
  /\ params.state = Str("tas")
  /\ params.bagPrice = Whole(4)
  /\ result.results.comparison.costDifference = Whole(50)
  /\ result.results.comparison.recommendation = "either"

\* C12: the bag path of a Valid comparison is quantity = the bags rounded up
\* from volume x 108, cost range = quantity x bag price range, weight =
\* quantity x 20 kg, labour = quantity x 0.05 h; the ready-mix path is what
\* calculateReadymixCost returns for the volume and region.  0.9 m3 gives 98
\* bags and 4.9 hours, and the reasons cite both.
C12_BagAndReadymixPaths ==
  (op = "compareBagsVsReadymix" /\ result.valid) =>
    LET v == params.volume
        b == result.results.bags
        rm == result.results.readymix
        prices == BagPriceRange(params.bagPrice)
        alone == calculateReadymixCost(v, params.state)
    IN /\ IsRoundedUp(b.quantity, QTimes(v, OneHundredEight))
       /\ b.cost.min = QTimes(b.quantity, prices.min)
       /\ b.cost.max = QTimes(b.quantity, prices.max)
       /\ b.weight = QTimes(b.quantity, Whole(20))
       /\ b.labourHours = QTimes(b.quantity, Num(1, 20))
       /\ rm.volume = alone.volume
       /\ rm.hasMinimumApplied = alone.hasMinimumApplied
       /\ rm.cost.min = alone.min
       /\ rm.cost.max = alone.max
       /\ v = Num(9, 10) =>
            /\ b.quantity = Whole(98)
            /\ b.labourHours = Num(49, 10)
            /\ result.results.comparison.recommendation = "readymix"
            /\ result.results.comparison.reasons[2]
                 = "Mixing 98 bags by hand would take ~4.9 hours"

C12_Witness ==
  /\ op = "compareBagsVsReadymix"
  /\ result.valid
  /\ params.volume = Num(9, 10)
  /\ params.state = Str("vic")
  /\ result.results.bags.quantity = Whole(98)
  /\ result.results.bags.weight = Whole(1960)
  /\ result.results.readymix.cost.min = Whole(216)
  /\ result.results.comparison.reasons[2]
       = "Mixing 98 bags by hand would take ~4.9 hours"

\* the branch of the recommendation code a Valid comparison went through
BranchOf(v, res) ==
  IF QLt(v, Num(3, 10)) THEN "bags"
  ELSE IF ~QLt(v, Num(8, 10)) THEN "readymix by volume"
  ELSE IF res.results.comparison.recommendation = "readymix" THEN "readymix by cost"
  ELSE "either"

\* the same comparison asked for another volume
OtherVolume(v2) == compareBagsVsReadymix([params EXCEPT !.volume = v2])

PositiveVolumes == {v \in Volumes : IsNum(v) /\ v.n > 0}

FiguresDiffer(r1, r2) ==
  \/ r1.results.bags.quantity # r2.results.bags.quantity
  \/ r1.results.bags.cost # r2.results.bags.cost
  \/ r1.results.readymix.cost # r2.results.readymix.cost

\* savings as formatCurrency shows them: whole dollars
WholeDollars(x) == (2 * Abs(x.n) + x.d) \div (2 * x.d)

\* the original reading of C13: in every branch, inputs with different bag
\* counts or costs get different reasons
C13_ReasonsFollowFigures ==
  (op = "compareBagsVsReadymix" /\ result.valid) =>
    /\ Len(result.results.comparison.reasons) \in 2..3
    /\ \A v2 \in PositiveVolumes :
         (/\ BranchOf(v2, OtherVolume(v2)) = BranchOf(params.volume, result)
          /\ FiguresDiffer(result, OtherVolume(v2))) =>
           OtherVolume(v2).results.comparison.reasons
             # result.results.comparison.reasons

\* C13 (amended): every branch returns three reasons.  The 'bags' and the
\* 'either' branch return fixed texts; the 'readymix' by cost branch cites
\* the saving in whole dollars and the 'readymix' by volume branch cites the
\* bag count and the mixing hours, so that in these two branches inputs with
\* different whole-dollar savings, or different bag counts, get different
\* reasons.
C13_ReasonsPerBranch ==
  (op = "compareBagsVsReadymix" /\ result.valid) =>
    LET branch == BranchOf(params.volume, result)
        reasons == result.results.comparison.reasons
    IN /\ Len(reasons) = 3
       /\ branch = "bags" =>
            reasons = << "Small volume - bags are more practical",
                         "No minimum order charges", "Mix as needed" >>
       /\ branch = "either" =>
            reasons = << "Costs are similar for this volume",
                         "Ready-mix saves time and labour",
                         "Bags offer more flexibility" >>
       /\ branch = "readymix by volume" =>
            \A v2 \in PositiveVolumes :
              (/\ BranchOf(v2, OtherVolume(v2)) = branch
               /\ OtherVolume(v2).results.bags.quantity
                    # result.results.bags.quantity) =>
                OtherVolume(v2).results.comparison.reasons # reasons
       /\ branch = "readymix by cost" =>
            \A v2 \in PositiveVolumes :
              (/\ BranchOf(v2, OtherVolume(v2)) = branch
               /\ WholeDollars(OtherVolume(v2).results.comparison.costDifference)
                    # WholeDollars(result.results.comparison.costDifference)) =>
                OtherVolume(v2).results.comparison.reasons # reasons

C13_Witness ==
  /\ op = "compareBagsVsReadymix"
  /\ result.valid
  /\ params.volume = Num(6, 10)
  /\ params.state = Undefined
  /\ params.bagPrice = Undefined
  /\ result.results.comparison.recommendation = "readymix"
  /\ result.results.comparison.reasons[2] = "Save approximately $497"

\* the wastage percentage a shape calculator works with
WastageUsed == IF params.wastage = Undefined THEN Whole(10) ELSE params.wastage

\* the default ready-mix quote for a volume
DefaultQuote(v) ==
  LET billed == IF QLt(v, HalfCubicMetre) THEN HalfCubicMetre ELSE v
  IN [min |-> QTimes(billed, Whole(200)), max |-> QTimes(billed, Whole(420)),
      volume |-> billed, hasMinimumApplied |-> QLt(v, HalfCubicMetre)]

IsSlabExample ==
  /\ op = "calculateRectangularSlab"
  /\ params.length = Whole(3)
  /\ params.width = Whole(4)
  /\ params.depth = Num(1, 10)
  /\ WastageUsed = Whole(10)

\* C15: in every Valid shape result the total volume is the base volume with
\* the wastage (default 10) applied, the bag count is the total volume times
\* 108 rounded up, the bag cost range is the bag count times 8.50 and 12.50,
\* and the ready-mix cost is the default-range quote for the total volume.
\* A 3 x 4 x 0.1 slab at 10% has base 1.2, total 1.32 and 143 bags.
C15_DerivedFigures ==
  (op \in ShapeOps /\ result.valid) =>
    LET r == result.results
        total == WithWastage(r.baseVolume, WastageUsed)
    IN /\ r.totalVolume = total
       /\ IsRoundedUp(r.bags, QTimes(total, OneHundredEight))
       /\ r.bagCost = [min |-> QTimes(r.bags, Num(17, 2)),
                       max |-> QTimes(r.bags, Num(25, 2))]
       /\ r.readymixCost = DefaultQuote(total)
       /\ IsSlabExample =>
            /\ r.baseVolume = Num(12, 10)
            /\ r.totalVolume = Num(132, 100)
            /\ r.bags = Whole(143)

C15_Witness ==
  /\ IsSlabExample
  /\ result.valid
  /\ result.results.bags = Whole(143)
  /\ result.results.bagCost.max = Num(3575, 2)
  /\ result.results.readymixCost.min = Whole(264)

\* C16: in every Valid shape result the bag count, computed on the volume
\* with wastage, is at least the bag count of the base volume.
C16_BagsCoverBaseVolume ==
  (op \in ShapeOps /\ result.valid) =>
    QLe(QCeil(QTimes(result.results.baseVolume, OneHundredEight)),
        result.results.bags)

\* C17: every Valid shape result comes from, and echoes, inputs whose
\* required dimensions are positive, whose count is at least one and whose
\* wastage percentage is not negative.
C17_InputsSatisfyInvariant ==
  (op \in ShapeOps /\ result.valid) =>
    /\ ~RejectableInput
    /\ result.inputs.wastage = WastageUsed
    /\ QLe(Whole(0), WastageUsed)

IsRoundColumn == params.shape \in {Undefined, Str("round")}

IsSquareColumn == params.shape = Str("square")

ColumnCountUsed ==
  IF params.columnCount = Undefined THEN Whole(1) ELSE params.columnCount

\* C18: a round column is rejected for a missing or non-positive diameter
\* and otherwise has volume pi x (diameter/2)^2 x height per column, whatever
\* width and depth are; a square column is rejected for a missing or
\* non-positive width and otherwise has volume width x depth x height per
\* column, with depth = width when depth is omitted; the base volume is the
\* volume per column times the column count.
C18_ColumnByShape ==
  op = "calculateColumn" =>
    /\ (IsRoundColumn /\ BadDimension(params.diameter)) => ~result.valid
    /\ (IsSquareColumn /\ BadDimension(params.width)) => ~result.valid
    /\ (/\ IsRoundColumn
        /\ ~BadDimension(params.diameter) /\ ~BadDimension(params.height)
        /\ IsNum(ColumnCountUsed) /\ ~CountBelowOne(ColumnCountUsed)) =>
         result.valid
    /\ result.valid =>
         LET r == result.results
         IN /\ IsRoundColumn =>
                 r.volumePerColumn = Cylinder(params.diameter, params.height)
            /\ (IsSquareColumn /\ params.depth = Undefined) =>
                 r.volumePerColumn =
                   QTimes(QTimes(params.width, params.width), params.height)
            /\ (IsSquareColumn /\ IsNum(params.depth) /\ params.depth.n > 0) =>
                 r.volumePerColumn =
                   QTimes(QTimes(params.width, params.depth), params.height)
            /\ r.baseVolume = QTimes(r.volumePerColumn, ColumnCountUsed)

C18_Witness ==
  /\ op = "calculateColumn"
  /\ result.valid
  /\ params.shape = Str("square")
  /\ params.width = Num(3, 10)
  /\ params.depth = Num(12, 10)
  /\ params.diameter = Num(-1, 10)
  /\ params.height = Num(12, 5)
  /\ params.columnCount = Whole(2)
  /\ result.results.volumePerColumn = Num(108, 125)
  /\ result.results.baseVolume = Num(216, 125)

FootingCountUsed ==
  IF params.footingCount = Undefined THEN Whole(1) ELSE params.footingCount

AllPositive(dims) == \A x \in dims : IsNum(x) /\ x.n > 0

IsCircularExample ==
  /\ op = "calculateCircularSlab"
  /\ params.diameter = Num(12, 10)
  /\ params.thickness = Num(1, 10)
  /\ WastageUsed = Whole(10)

\* C19: for positive dimensions the result is Valid and the base volume is
\* length x width x depth for a rectangular slab, length x width x depth x
\* footingCount for footings and pi x (diameter/2)^2 x thickness for a
\* circular slab; a 1.2 m circular slab 0.1 m thick at 10% needs 14 bags.
C19_BaseVolumeFormulas ==
  /\ (/\ op = "calculateRectangularSlab"
      /\ AllPositive({params.length, params.width, params.depth})) =>
       /\ result.valid
       /\ result.results.baseVolume =
            QTimes(QTimes(params.length, params.width), params.depth)
  /\ (/\ op = "calculateFooting"
      /\ AllPositive({params.length, params.width, params.depth})
      /\ IsNum(FootingCountUsed) /\ ~CountBelowOne(FootingCountUsed)) =>
       /\ result.valid
       /\ result.results.baseVolume =
            QTimes(QTimes(QTimes(params.length, params.width), params.depth),
                   FootingCountUsed)
  /\ (/\ op = "calculateCircularSlab"
      /\ AllPositive({params.diameter, params.thickness})) =>
       /\ result.valid
       /\ result.results.baseVolume =
            Cylinder(params.diameter, params.thickness)
  /\ IsCircularExample => result.results.bags = Whole(14)

C19_Witness ==
  /\ IsCircularExample
  /\ result.valid
  /\ result.results.baseVolume = Num(639, 5650)
  /\ result.results.bags = Whole(14)

NonNegativeWastages == {w \in Wastages : IsNum(w) /\ w.n >= 0}

\* C20: applyWastage(v, p) = v x (1 + p/100); p = 0 returns v unchanged; for
\* v >= 0 a larger non-negative percentage never gives a smaller result.
C20_WastageFormula ==
  op = "applyWastage" =>
    LET v == params.volume
        p == params.wastagePercent
    IN /\ result = WithWastage(v, p)
       /\ p = Whole(0) => result = v
       /\ (v.n >= 0 /\ p.n >= 0) =>
            \A w2 \in NonNegativeWastages :
              QLe(p, w2) => QLe(result, applyWastage(v, w2))

C20_Witness ==
  /\ op = "applyWastage"
  /\ params.volume = Num(3, 5)
  /\ params.wastagePercent = Whole(5)
  /\ result = Num(63, 100)
  /\ QLt(result, applyWastage(params.volume, Whole(10)))

\* C14: a comparison with the volume, region and bag price of a comparison
\* made earlier returns the earlier recommendation and the earlier reasons,
\* whatever was called in between.
C14_SameCallSameAnswer ==
  (/\ op = "compareBagsVsReadymix"
   /\ earlier.kept
   /\ params = earlier.params) =>
    /\ result.valid
    /\ result.results.comparison.recommendation = earlier.recommendation
    /\ result.results.comparison.reasons = earlier.reasons

C14_Witness ==
  /\ op = "compareBagsVsReadymix"
  /\ earlier.kept
  /\ earlier.callsSince
  /\ params = earlier.params
  /\ params.volume = Num(6, 10)
  /\ params.bagPrice = Whole(4)
  /\ result.results.comparison.recommendation = "readymix"
  /\ earlier.recommendation = "readymix"

\* C21: after any sequence of calls the constants table, the per-region
\* price entries included, is the table the module was loaded with, so that
\* a call returns what it returns when run alone: a region quote is the
\* billed volume times the loaded prices of the region.
C21_ConstantsUntouched ==
  /\ constantsTable = ConstantsTable
  /\ \A code \in RegionCodes :
       constantsTable.READYMIX_PRICES[code] = READYMIX_PRICES[code]
  /\ (op = "calculateReadymixCost" /\ IsRegion(params.state)) =>
       /\ result.min = QTimes(result.volume, READYMIX_PRICES[params.state.s].min)
       /\ result.max = QTimes(result.volume, READYMIX_PRICES[params.state.s].max)

C21_Witness ==
  /\ op = "calculateReadymixCost"
  /\ params.state = Str("nsw")
  /\ params.volume = Whole(1)
  /\ result.min = Whole(250)
  /\ result.max = Whole(380)
  /\ constantsTable.READYMIX_PRICES.nsw.min = Whole(250)

NoCustomBagPrice == params.bagPrice \in {Undefined, Null}

\* C27: with the default bag prices the comparator never recommends
\* 'either': in the band 0.3 <= v < 0.8 it recommends 'readymix' for every
\* region code, recognized or not.
C27_NeverEitherAtDefaultPrices ==
  (op = "compareBagsVsReadymix" /\ result.valid /\ NoCustomBagPrice) =>
    /\ result.results.comparison.recommendation # "either"
    /\ InMiddleBand(params.volume) =>
         result.results.comparison.recommendation = "readymix"

\* C28: every Valid shape result has at least one bag, cost ranges whose
\* minimum is at most their maximum, and a billed ready-mix volume of at
\* least 0.5 m3.
C28_WellFormedFigures ==
  (op \in ShapeOps /\ result.valid) =>
    LET r == result.results
    IN /\ QLe(Whole(1), r.bags)
       /\ QLe(r.bagCost.min, r.bagCost.max)
       /\ QLe(r.readymixCost.min, r.readymixCost.max)
       /\ QLe(HalfCubicMetre, r.readymixCost.volume)

\* C29: in every Valid square-column result the echoed depth is the depth
\* the volume was computed with: volumePerColumn = inputs.width x
\* inputs.depth x inputs.height.
C29_EchoedDepthIsUsedDepth ==
  (op = "calculateColumn" /\ result.valid /\ IsSquareColumn) =>
    result.results.volumePerColumn =
      QTimes(QTimes(result.inputs.width, result.inputs.depth),
             result.inputs.height)

\* millimetres of a page's data as the metres the engine takes
Metres(mm) == Num(mm.n, 1000 * mm.d)

\* the engine's result for the inputs of the page in hand
EngineForPage ==
  CASE op = "generateSlabPage" -> calculateRectangularSlab(params)
    [] op = "generateFootingPage" ->
         calculateFooting([length |-> params.length, width |-> params.width,
                           depth |-> params.depth,
                           footingCount |-> params.count,
                           wastage |-> params.wastage])
    [] op = "generatePostHolePage" ->
         calculatePostHole([holeDiameter |-> Metres(params.holeDiameter),
                            holeDepth |-> Metres(params.holeDepth),
                            postWidth |-> Metres(params.postWidth),
                            postCount |-> params.count,
                            postShape |-> params.postShape,
                            wastage |-> Whole(10)])

PageOps == {"generateSlabPage", "generateFootingPage", "generatePostHolePage"}

\* C22: the total volume, the bag count and the bag cost range a generated
\* slab, footing or post-hole page embeds are those of the engine's
\* calculateRectangularSlab, calculateFooting and calculatePostHole (at 10%
\* wastage) for the same inputs.
C22_GeneratorMatchesEngine ==
  op \in PageOps =>
    /\ EngineForPage.valid
    /\ result.volume = EngineForPage.results.totalVolume
    /\ result.bags = EngineForPage.results.bags
    /\ result.bagCostMin = EngineForPage.results.bagCost.min
    /\ result.bagCostMax = EngineForPage.results.bagCost.max

C22_Witness ==
  /\ op = "generatePostHolePage"
  /\ params.holeDiameter = Whole(300)
  /\ params.holeDepth = Whole(600)
  /\ params.postWidth = Whole(100)
  /\ params.postShape = Str("square")
  /\ params.count = Whole(1)
  /\ result.bags = Whole(5)
  /\ EngineForPage.results.bags = Whole(5)
  /\ result.bagCostMax = Num(125, 2)

\* C23: the ready-mix cost range a generated slab or footing page embeds is
\* the range calculateReadymixCost returns for the page's total volume.
C23_GeneratorReadymixMatchesEngine ==
  op \in {"generateSlabPage", "generateFootingPage"} =>
    /\ result.readymixCostMin = calculateReadymixCost(result.volume, Undefined).min
    /\ result.readymixCostMax = calculateReadymixCost(result.volume, Undefined).max

\* the texts the results panel and the formula container show
VisibleTexts ==
  {dom[k].text : k \in ElementKeys}
  \cup {formulaBox.description}
  \cup {formulaBox.steps[i].calc : i \in DOMAIN formulaBox.steps}

\* C24: after an Invalid record was rendered every mapped result element
\* shows the placeholder, no figure of an earlier Valid result is on screen,
\* and the record's reason is shown.
C24_InvalidShowsReasonAndPlaceholder ==
  (phase = "ready" /\ ~lastRendered.valid) =>
    /\ \A k \in elements : dom[k] = Placeholder
    /\ formulaBox = NoFormula
    /\ lastRendered.error \in VisibleTexts

\* the page shows the result of the calculator for the fields as they are
UpToDate ==
  /\ lastRendered = calculateFn(form)
  /\ \A k \in elements :
       dom[k] = IF lastRendered.valid
                  THEN [text |-> FigureText(k, lastRendered.results),
                        placeholder |-> FALSE]
                ELSE Placeholder

NoTimerPending == timers = {}

\* C25: initCalculatorInputs renders at once; whenever no debounce timer is
\* pending the page shows the result for the latest field values; and a
\* pending timer always comes due, so that every input event is followed by
\* a rendering of the latest values.
C25_LatestInputRendered ==
  /\ [](phase = "loading" => <>(phase = "ready"))
  /\ []((phase = "ready" /\ NoTimerPending) => UpToDate)
  /\ [](~NoTimerPending => <>(NoTimerPending /\ UpToDate))

C25_Witness ==
  /\ phase = "ready"
  /\ calls = MaxEvents
  /\ NoTimerPending
  /\ invocations = 2
  /\ form = [diameter |-> Num(12, 10), thickness |-> Num(1, 10)]
  /\ lastRendered.valid
  /\ "bags" \in elements
  /\ dom["bags"].text = "14"

\* C26: the debounced function has been invoked once for every burst of
\* calls that has ended and not at all for a burst still running; each
\* invocation came a full wait after the last call of its burst, with the
\* arguments of that call; never more than one timer is pending.
C26_OneInvocationPerBurst ==
  /\ invocations = IF timers = {} THEN bursts ELSE bursts - 1
  /\ Cardinality(timers) <= 1
  /\ invocations > 0 => lastInvocation.quiet = DebounceTicks
  /\ (invocations > 0 /\ timers = {}) => lastInvocation.args = calls
  /\ \A t \in timers : t.args = calls /\ t.remaining = DebounceTicks - quiet

C26_Witness ==
  /\ calls = 3
  /\ bursts = 1
  /\ invocations = 1
  /\ timers = {}
  /\ lastInvocation = [args |-> 3, quiet |-> DebounceTicks]

\* C30: the body's scrolling is locked exactly when some modal is open, and
\* a modal is open exactly when its backdrop is open and its trigger's
\* aria-expanded is true.
C30_ScrollLockedIffModalOpen ==
  /\ (bodyOverflow = "hidden") <=> (\E m \in ModalIds : modalOpen[m])
  /\ \A m \in ModalIds :
       /\ modalOpen[m] = backdropOpen[m]
       /\ modalOpen[m] = ariaExpanded[m]

====
